---- MODULE Spec2Model ----
(***************************************************************************)
(* Model of pybalt's Cobalt client (src/pybalt/cobalt.py): the instance    *)
(* selector (Cobalt.get_instance) and the extraction request resolver      *)
(* (Cobalt.get) with its error dispatch and retry by instance rotation.    *)
(*                                                                         *)
(* Strings are modelled as sequences of tokens: a URL is a sequence such   *)
(* as <<"https://", "b.example", "/">>, an API error code is the sequence  *)
(* of its dot-separated segments, a source URL is a sequence of            *)
(* characters.  Every await of the coroutines is one step of the model:    *)
(* the registry GET, each probe GET and the extraction POST.  Cobalt.download *)
(* and File.download are modelled on top of get(): every read of the       *)
(* tunnel's stream is one more step.  Paths are sequences of tokens with   *)
(* "/" as the separator token.                                             *)
(***************************************************************************)
EXTENDS Integers, Sequences, FiniteSets, TLC

VARIABLES
    api_instance,       \* self.api_instance: the active instance URL
    skipped_instances,  \* self.skipped_instances: list of URLs
    headers,            \* self.headers: header name -> value
    task,               \* per coroutine running get(): its locals and position
    calls,              \* number of calls made on the client in this session
    erred,              \* history: hosts that answered a POST with a retryable error
    dl,                 \* per coroutine: the download() frame it is in
    disk                \* the file system: path -> directory or file content

vars == <<api_instance, skipped_instances, headers, task, calls, erred, dl, disk>>

\* ---------------------------------------------------------------- bounds
MaxCalls == 2
MaxReg == 2
MaxUrlLen == 2
MaxItems == 2
MaxChunks == 2

\* ------------------------------------------------------------ generic helpers
Range(s) == {s[i] : i \in 1..Len(s)}

RECURSIVE Remove(_, _)
\* str.replace(tok, ""): every occurrence of the token is removed
Remove(s, tok) ==
    IF s = <<>> THEN <<>>
    ELSE IF Head(s) = tok THEN Remove(Tail(s), tok)
    ELSE <<Head(s)>> \o Remove(Tail(s), tok)

RECURSIVE StripLeft(_)
StripLeft(s) ==
    IF s # <<>> /\ Head(s) = " " THEN StripLeft(Tail(s)) ELSE s

RECURSIVE StripRight(_)
StripRight(s) ==
    IF s # <<>> /\ s[Len(s)] = " " THEN StripRight(SubSeq(s, 1, Len(s) - 1)) ELSE s

\* str.strip(): leading and trailing whitespace removed
Strip(s) == StripRight(StripLeft(s))

LowerTok(tok) ==
    CASE tok = "FETCH" -> "fetch"
      [] tok = "Get" -> "get"
      [] tok = "F" -> "f"
      [] OTHER -> tok

\* str.lower()
Lower(s) == [i \in 1..Len(s) |-> LowerTok(s[i])]

\* ------------------------------------------------------------ the environment
Hosts == {"dwnld.nichind.dev", "b.example", "c.example"}

Schemes == {"https://", "http://"}

\* The server a URL string addresses ("none": nothing answers there).
HostOf(url) ==
    IF /\ Len(url) \in {2, 3}
       /\ url[1] \in Schemes
       /\ url[2] \in Hosts
       /\ (Len(url) = 3 => url[3] = "/")
    THEN url[2]
    ELSE "none"

\* json["cobalt"]["url"] of the probe: the instance's own canonical URL.  Most
\* instances report their URL with a trailing slash, some without.
CanonicalUrl(h) ==
    IF h = "c.example" THEN <<"https://", h>> ELSE <<"https://", h, "/">>

\* instance["protocol"] + "://" + instance["api"]
ProbeAddress(instance) ==
    <<IF instance.protocol = "https" THEN "https://" ELSE "http://", instance.api>>

ServiceNames ==
    <<"bilibili", "bluesky", "facebook", "instagram", "reddit",
      "soundcloud", "tiktok", "twitter", "youtube">>

\* A services mapping of which the first n (in ServiceNames order) are down.
ServicesDown(n) ==
    [s \in Range(ServiceNames) |->
        \E i \in 1..Len(ServiceNames) : ServiceNames[i] = s /\ i > n]

RegistryEntry(h, major, trust, down, score) ==
    [api |-> h, protocol |-> "https", version |-> <<major, 4>>, trust |-> trust,
     services |-> ServicesDown(down), score |-> score]

\* ------------------------------------------------------------ Cobalt.__init__
DefaultInstance == <<"https://", "dwnld.nichind.dev">>

HasHttp(s) == \E i \in 1..Len(s) : s[i] \in Schemes

\* self.api_instance after construction; the argument <<>> stands for None or ""
ConstructInstance(arg) ==
    LET given == IF arg # <<>>
                 THEN (IF ~HasHttp(arg) THEN <<"https://">> ELSE <<>>) \o arg
                 ELSE <<>>
    IN  IF given = <<>> THEN DefaultInstance ELSE given

\* self.api_key after construction
ConstructKey(arg, api_key) ==
    IF ConstructInstance(arg) = DefaultInstance /\ api_key = ""
    THEN "b05007aa-bb63-4267-a66e-78f8e10bf9bf"
    ELSE api_key

\* self.headers after construction with headers=None
ConstructHeaders(arg, api_key) ==
    LET key == ConstructKey(arg, api_key)
        base == [h \in {"Accept", "Content-Type", "Authorization", "User-Agent"} |->
                    CASE h = "Accept" -> "application/json"
                      [] h = "Content-Type" -> "application/json"
                      [] h = "Authorization" -> IF key # "" THEN "Api-Key" ELSE ""
                      [] h = "User-Agent" -> "pybalt/python"]
    IN  IF base["Authorization"] = ""
        THEN [h \in DOMAIN base \ {"Authorization"} |-> base[h]]
        ELSE base

SelectorUserAgent == "https://github.com/nichind/pybalt"

\* ------------------------------------------------------------ Cobalt.get_instance
RECURSIVE DeadServicesCountsAlive(_, _)
\* the counter with its test inverted: it counts the services that are up
DeadServicesCountsAlive(services, keys) ==
    IF keys = {} THEN 0
    ELSE LET service == CHOOSE k \in keys : TRUE
         IN  (IF services[service] THEN 1 ELSE 0)
             + DeadServicesCountsAlive(services, keys \ {service})

RECURSIVE DeadServices(_, _)
\* the dead_services counter over the keys that remain to be visited
DeadServices(services, keys) ==
    IF keys = {} THEN 0
    ELSE LET service == CHOOSE k \in keys : TRUE
         IN  (IF ~services[service] THEN 1 ELSE 0)
             + DeadServices(services, keys \ {service})

RECURSIVE GoodInstances(_)
\* the filter loop building good_instances from the registry list
GoodInstances(instances) ==
    IF instances = <<>> THEN <<>>
    ELSE LET instance == Head(instances)
             rest == GoodInstances(Tail(instances))
         IN  IF instance.version[1] < 10 \/ instance.trust # 1 THEN rest
             ELSE IF DeadServices(instance.services, DOMAIN instance.services) > 7
                  THEN rest
             ELSE <<instance>> \o rest

\* the skip test left out: no probed URL counts as skipped
IsSkippedNever(url, skipped) == FALSE

\* json["cobalt"]["url"] in self.skipped_instances
IsSkipped(url, skipped) == url \in Range(skipped)

\* the insertion of a sort that is not stable: x goes before its equals
InsertByScoreBeforeTies(sorted, x) ==
    LET before == {i \in 1..Len(sorted) : sorted[i].score > x.score}
        k == Cardinality(before)
    IN  SubSeq(sorted, 1, k) \o <<x>> \o SubSeq(sorted, k + 1, Len(sorted))

\* the commit taking the address the registry advertised
CommittedAddress(canonical, address) == address

\* self.api_instance = json["cobalt"]["url"]: of the probe's canonical URL and
\* the address probed, the selector commits the canonical URL
Committed(canonical, address) == canonical

\* Where a stable descending sort puts x in an already sorted list: behind every
\* element whose score is not smaller.
InsertByScore(sorted, x) ==
    LET before == {i \in 1..Len(sorted) : sorted[i].score >= x.score}
        k == Cardinality(before)
    IN  SubSeq(sorted, 1, k) \o <<x>> \o SubSeq(sorted, k + 1, Len(sorted))

RECURSIVE SortByScore(_)
\* good_instances.sort(key=score, reverse=True): stable, descending
SortByScore(s) ==
    IF s = <<>> THEN <<>>
    ELSE InsertByScore(SortByScore(SubSeq(s, 1, Len(s) - 1)), s[Len(s)])

\* ------------------------------------------------------------ Cobalt.get
Sentinels == {<<"f">>, <<"fetch">>, <<"get">>}

\* the test that sends get() to the selector before its first submission
NeedsInstance(inst) ==
    \/ inst = <<>>
    \/ Lower(Remove(Remove(Strip(inst), "https://"), "http://")) \in Sentinels

CanonicalQualities ==
    {"max", "3840", "2160", "1440", "1080", "720", "480", "360", "240", "144"}

QualityAliases ==
    [q \in {"8k", "4k", "2k", "1080p", "720p", "480p", "360p", "240p", "144p"} |->
        CASE q = "8k" -> "3840"
          [] q = "4k" -> "2160"
          [] q = "2k" -> "1440"
          [] q = "1080p" -> "1080"
          [] q = "720p" -> "720"
          [] q = "480p" -> "480"
          [] q = "360p" -> "360"
          [] q = "240p" -> "240"
          [] q = "144p" -> "144"]

\* a normalisation that needs two passes: 8k is first turned into 4k
NormalizeQualityInTwoPasses(quality) ==
    IF quality \in CanonicalQualities THEN quality
    ELSE IF quality = "8k" THEN "4k"
    ELSE IF quality \in DOMAIN QualityAliases THEN QualityAliases[quality]
    ELSE "1080"

\* the normalisation without its fallback: an unknown value is passed on
NormalizeQualityKeepsUnknown(quality) ==
    IF quality \in CanonicalQualities THEN quality
    ELSE IF quality \in DOMAIN QualityAliases THEN QualityAliases[quality]
    ELSE quality

\* the quality normalisation; a KeyError of the alias lookup gives "1080"
NormalizeQuality(quality) ==
    IF quality \in CanonicalQualities THEN quality
    ELSE IF quality \in DOMAIN QualityAliases THEN QualityAliases[quality]
    ELSE "1080"

\* the sanitisation without its last replace: backslashes stay
SanitizeKeepsBackslash(url) == Remove(Remove(url, "'"), "\"")

\* url.replace("'", "").replace('"', "").replace("\\", "")
Sanitize(url) == Remove(Remove(Remove(url, "'"), "\""), "\\")

Truthy(v) == v # "None" /\ v # ""

\* the request body built from the arguments
RequestBody(a, quality) ==
    LET json == [url |-> Sanitize(a.url),
                 videoQuality |-> quality,
                 youtubeVideoCodec |->
                     IF Truthy(a.youtube_video_codec) THEN a.youtube_video_codec
                     ELSE "h264",
                 filenameStyle |-> a.filename_style]
    IN  IF Truthy(a.audio_format)
        THEN json @@ [audioFormat |-> a.audio_format]
        ELSE json

\* ------------------------------------------------------------ values
NoJson == [none |-> TRUE]

NoFile == [none |-> TRUE]

NoOutcome == [type |-> "none"]

NoArgs ==
    [url |-> <<>>, quality |-> "None", download_mode |-> "auto",
     filename_style |-> "pretty", audio_format |-> "None",
     youtube_video_codec |-> "None"]

Exception(type, msg) == [type |-> type, msg |-> msg]

\* IndexError of good_instances.pop(0) in the handler, raised while the
\* IndexError of good_instances[0] is being handled
PopFromEmpty == Exception("IndexError", [text |-> "pop from empty list"])

\* File(cobalt=self, status=..., url=..., tunnel=..., filename=...)
File(status, url, tunnel, filename) ==
    [status |-> status, url |-> url, tunnel |-> tunnel, filename |-> filename,
     downloaded |-> FALSE, path |-> <<>>]

\* The locals of a coroutine that is not inside get().  Besides the locals of
\* get() and get_instance() a task records its history within the call: the
\* POSTs made (posts), the session state when get() was called (before), how
\* often get_instance was entered (selections), how its last run stands (gi:
\* none, registry, probing, committed, exhausted, failed), the candidates
\* that run has popped (discarded), the probes it has made with what came of
\* them (probes), and the exception that ended the call as
\* it was raised, with the await it was raised at (raised).
IdleTask ==
    [pc |-> "idle", site |-> "first", args |-> NoArgs, quality |-> "None",
     body |-> NoJson, target |-> <<>>, posts |-> <<>>, instances |-> <<>>,
     good_instances |-> <<>>, resp |-> NoJson, outcome |-> NoOutcome,
     result |-> NoFile, retries |-> 0,
     before |-> [api_instance |-> <<>>, skipped_instances |-> <<>>],
     selections |-> 0, gi |-> "none", discarded |-> <<>>, probes |-> <<>>,
     raised |-> [exc |-> NoOutcome, at |-> "none"]]

\* get(a.url, a.quality, ...) is entered while the session is (inst, skipped)
NewCall(a, inst, skipped) ==
    [IdleTask EXCEPT !.args = a, !.quality = a.quality,
                     !.before = [api_instance |-> inst, skipped_instances |-> skipped]]

\* ------------------------------------------------------------ steps of get()
\* get_instance is entered and awaits the registry
AwaitRegistry(f, s) ==
    [f EXCEPT !.pc = "registry", !.site = s, !.instances = <<>>,
              !.good_instances = <<>>, !.discarded = <<>>, !.probes = <<>>,
              !.gi = "registry",
              !.selections = @ + 1]

\* quality is normalised, the body is built and the POST to inst is awaited
Submit(f, inst) ==
    LET q == NormalizeQuality(f.quality)
        json == RequestBody(f.args, q)
    IN  [f EXCEPT !.pc = "post", !.quality = q, !.body = json, !.target = inst,
                  !.posts = Append(@, [target |-> inst, body |-> json])]

\* entry of a get() frame while the active instance is inst
Enter(f, inst) ==
    IF NeedsInstance(inst) THEN AwaitRegistry(f, "first") ELSE Submit(f, inst)

\* get() as a whole is inside the try of an outer frame, or get_instance was
\* called from the retry branches, which are inside the try
InTry(f) == f.retries > 0

\* the except clause left out: every exception leaves get() as it was raised
RaiseUnconverted(f, exc, inst, inTry) ==
    [f EXCEPT !.pc = "idle", !.raised = [exc |-> exc, at |-> f.pc], !.outcome = exc]

\* an exception leaves get(); the except clause turns a ClientConnectorError
\* raised inside the try into BadInstance
Raise(f, exc, inst, inTry) ==
    [f EXCEPT !.pc = "idle",
              !.raised = [exc |-> exc, at |-> f.pc],
              !.outcome =
                  IF exc.type = "ClientConnectorError" /\ inTry
                  THEN Exception("BadInstance",
                                 [text |-> "Cannot reach instance", instance |-> inst])
                  ELSE exc]

\* head of the while loop of get_instance: sort, then probe good_instances[0];
\* on an empty list the IndexError handler pops from it and raises again
LoopHead(f, good, inst) ==
    LET sorted == SortByScore(good)
    IN  IF sorted = <<>>
        THEN Raise([f EXCEPT !.good_instances = <<>>, !.gi = "exhausted"],
                   PopFromEmpty, inst, InTry(f))
        ELSE [f EXCEPT !.pc = "probe", !.good_instances = sorted, !.gi = "probing"]

\* the except branch of the probe: good_instances.pop(0), then the loop again
Discard(f, inst) ==
    LoopHead([f EXCEPT !.discarded = Append(@, Head(f.good_instances))],
             Tail(f.good_instances), inst)

\* the skip entry taken from the frame: the URL its own POST was sent to
SkippedOwnTarget(f, inst) == f.target

\* the URL a retry branch appends to skipped_instances: self.api_instance as
\* it is when the response is handled (inst)
SkippedOnRetry(f, inst) == inst

\* the auth test widened: every auth code is retried
AuthRetryableAlways(code) == TRUE

\* the auth codes that are retried: last segment missing or not_found
AuthRetryable(code) ==
    code[Len(code)] = "missing" \/ code[Len(code)] = "not_found"

\* what the match on the error code does: an exception to raise, or Retry
ErrorDispatch(url, json) ==
    LET code == json.error.code
    IN  IF Len(code) < 3
        THEN Exception("IndexError", [text |-> "list index out of range"])
        ELSE CASE code[3] = "link" ->
                    Exception("LinkError", [text |-> "is invalid", url |-> url, code |-> code])
               [] code[3] = "content" ->
                    Exception("ContentError",
                              [text |-> "cannot get content of", url |-> url, code |-> code])
               [] code[3] = "invalid_body" ->
                    Exception("InvalidBody", [text |-> "Request body is invalid", code |-> code])
               [] code[3] = "auth" ->
                    IF AuthRetryable(code)
                    THEN [type |-> "Retry"]
                    ELSE Exception("AuthError", [text |-> "Authentication failed", code |-> code])
               [] code[3] = "youtube" -> [type |-> "Retry"]
               [] code[3] = "fetch" -> [type |-> "Retry"]
               [] OTHER ->
                    Exception("UnrecognizedError", [code |-> code, error |-> json.error])

\* the success branch: File(...) from the response, or the KeyError of a
\* response that lacks one of the keys read
Success(f, json) ==
    IF {"status", "url", "filename"} \subseteq DOMAIN json
    THEN [f EXCEPT !.pc = "idle", !.outcome = [type |-> "File"],
                   !.result = File(json["status"], Sanitize(f.args.url),
                                   json["url"], json["filename"])]
    ELSE [f EXCEPT !.pc = "idle",
                   !.outcome = Exception("KeyError", [text |-> "missing key"])]

\* ------------------------------------------------------------ Cobalt.download
\* None, for an optional string or path argument
None == <<>>

\* path.join(expanduser("~"), "Downloads")
Downloads == <<"/", "home", "/", "Downloads">>

\* os.path.join(a, b): an absolute b replaces a
Join(a, b) ==
    IF b # <<>> /\ b[1] = "/" THEN b
    ELSE IF a = <<>> \/ a[Len(a)] = "/" THEN a \o b
    ELSE a \o <<"/">> \o b

\* a path without its trailing separator: how the file system names a directory
Norm(p) ==
    IF Len(p) > 1 /\ p[Len(p)] = "/" THEN SubSeq(p, 1, Len(p) - 1) ELSE p

Dir == [kind |-> "dir"]

NewFile == [kind |-> "file", data |-> <<>>]

\* the file system before any download: the root directory only
EmptyDisk == (<<"/">> :> Dir)

IsDir(dk, p) == Norm(p) \in DOMAIN dk /\ dk[Norm(p)].kind = "dir"

IsFile(dk, p) == p \in DOMAIN dk /\ dk[p].kind = "file"

\* len(findall("[&?]list=([^&]+)", url)) > 0
HasListParam(url) == "?list=" \in Range(url)

\* the playlist read from its end
ItemAtReversed(items, i) == items[Len(items) + 1 - i]

\* the i-th item_url of enumerate(playlist.video_urls)
ItemAt(items, i) == items[i]

Returned(value) == [type |-> "return", value |-> value]

\* The download() frame of a coroutine that is not inside download(): its
\* arguments (args), the File whose download() method called it and the
\* path_folder given to that method (owner, given), the playlist loop (mode,
\* items, k), the locals
\* of the streaming part (file, filename, path_folder, dest, printed: whether
\* the progress line has been printed, which assigns max_print_length), and
\* its history: the chunks read (received), what it returned or raised
\* (result), the items started and ended (log) and the number of its streams
\* a KeyboardInterrupt has stopped (interrupts).
IdleDownload ==
    [pc |-> "idle", mode |-> "none", owner |-> NoFile, given |-> None,
     args |-> [url |-> None, quality |-> "None", filename |-> None,
               path_folder |-> None, playlist |-> FALSE],
     items |-> <<>>, k |-> 0, file |-> NoFile, filename |-> None,
     path_folder |-> None, dest |-> None, printed |-> FALSE,
     received |-> <<>>, result |-> NoOutcome, log |-> <<>>, interrupts |-> 0]

\* what a step of download() works on: its frame d, the get() frame f of the
\* same coroutine and the file system
Conf(d, f, dk) == [d |-> d, f |-> f, disk |-> dk]

\* file = await self.get(url, quality=quality, ...): runs up to get()'s first await
Resolve(c, url, quality, inst, skipped) ==
    [c EXCEPT !.d.pc = "get",
              !.f = Enter(NewCall([NoArgs EXCEPT !.url = url, !.quality = quality],
                                  inst, skipped), inst)]

\* the outermost download() returns; File.download then stores the value
ReturnTop(c, value) ==
    IF c.d.owner # NoFile
    THEN [c EXCEPT !.d.pc = "idle", !.d.result = Returned(value),
                   !.d.owner.path = value, !.d.owner.downloaded = TRUE]
    ELSE [c EXCEPT !.d.pc = "idle", !.d.result = Returned(value)]

\* the playlist loop at item k: the download() of that item runs up to the
\* first await of its get(); after the last item download() returns None
BeginItem(c, inst, skipped) ==
    IF c.d.k > Len(c.d.items)
    THEN ReturnTop(c, None)
    ELSE LET item_url == ItemAt(c.d.items, c.d.k)
         IN  Resolve([c EXCEPT !.d.log = Append(@, [event |-> "start", item |-> item_url])],
                     item_url, c.d.args.quality, inst, skipped)

\* a download() that got a file returns value: to the playlist loop, which
\* goes on with the next item, or to the caller
Return(c, value, inst, skipped) ==
    IF c.d.mode = "playlist"
    THEN BeginItem([c EXCEPT !.d.log = Append(@, [event |-> "end",
                                                  item |-> ItemAt(c.d.items, c.d.k)]),
                             !.d.k = @ + 1],
                   inst, skipped)
    ELSE ReturnTop(c, value)

\* an exception leaves download(), and the playlist loop with it: no frame
\* catches it
RaiseDownload(c, exc) ==
    [c EXCEPT !.d.pc = "idle", !.d.result = exc,
              !.d.log = IF c.d.mode = "playlist"
                        THEN Append(@, [event |-> "raised",
                                        item |-> ItemAt(c.d.items, c.d.k)])
                        ELSE @]

\* download() once it has the file: the defaults of filename and path_folder,
\* makedirs, the destination opened with "wb", then the GET of the tunnel is
\* awaited
OpenStream(c, file) ==
    LET filename == IF c.d.args.filename = None THEN <<file.filename>>
                    ELSE c.d.args.filename
        given == c.d.args.path_folder
        slashed == IF given # None /\ given[Len(given)] # "/"
                   THEN given \o <<"/">> ELSE given
        path_folder == IF slashed = None THEN Downloads ELSE slashed
        dest == Join(path_folder, filename)
        made == IF IsDir(c.disk, path_folder) THEN c.disk
                ELSE (Norm(path_folder) :> Dir) @@ c.disk
    IN  IF IsFile(c.disk, Norm(path_folder))
        THEN RaiseDownload(c, Exception("FileExistsError", [path |-> path_folder]))
        ELSE IF dest[Len(dest)] = "/" \/ IsDir(made, dest)
        THEN RaiseDownload([c EXCEPT !.disk = made],
                           Exception("IsADirectoryError", [path |-> dest]))
        ELSE [c EXCEPT !.disk = (dest :> NewFile) @@ made,
                       !.d.pc = "stream", !.d.file = file, !.d.filename = filename,
                       !.d.path_folder = path_folder, !.d.dest = dest,
                       !.d.printed = FALSE, !.d.received = <<>>]

\* download(a.url, a.quality, a.filename, a.path_folder, playlist=a.playlist,
\* file=file) is entered: the playlist loop over items, or one download
\* with the file given or resolved by get()
EnterDownload(c, a, file, items, inst, skipped) ==
    LET e == [c EXCEPT !.d.args = a, !.d.items = <<>>, !.d.k = 0, !.d.log = <<>>,
                       !.d.interrupts = 0,
                       !.d.result = NoOutcome, !.d.file = NoFile,
                       !.d.received = <<>>, !.d.dest = None]
    IN  IF a.playlist \/ HasListParam(a.url)
        THEN BeginItem([e EXCEPT !.d.mode = "playlist", !.d.items = items, !.d.k = 1],
                       inst, skipped)
        ELSE IF file = NoFile
        THEN Resolve([e EXCEPT !.d.mode = "single"], a.url, a.quality, inst, skipped)
        ELSE OpenStream([e EXCEPT !.d.mode = "single"], file)

\* the get() awaited by download() has returned a File or raised
AfterGet(c) ==
    IF c.d.pc # "get" \/ c.f.pc # "idle" THEN c
    ELSE IF c.f.outcome.type = "File" THEN OpenStream(c, c.f.result)
    ELSE RaiseDownload(c, c.f.outcome)

\* a chunk of the tunnel's stream is read, written, and the progress printed
WriteChunk(c, chunk) ==
    [c EXCEPT !.disk[c.d.dest].data = Append(@, chunk),
              !.d.received = Append(@, chunk), !.d.printed = TRUE]

\* the stream has ended: the summary line reads max_print_length, which only
\* the progress print assigns, then download() returns the path
EndOfStream(c, inst, skipped) ==
    IF ~c.d.printed
    THEN RaiseDownload(c, Exception("UnboundLocalError",
                                    [text |-> "max_print_length"]))
    ELSE Return(c, Join(c.d.path_folder, c.d.filename), inst, skipped)

\* the handler left out: the KeyboardInterrupt leaves download()
InterruptedRaises(c, inst, skipped) ==
    RaiseDownload(c, Exception("KeyboardInterrupt", [text |-> "interrupted"]))

\* except KeyboardInterrupt: return -- the download() that is streaming
\* returns None
Interrupted(c, inst, skipped) == Return(c, None, inst, skipped)

\* ------------------------------------------------------------ inputs
Tasks == {"A", "B"}

\* what the registry endpoint can fail with: unreachable, or a malformed body
RegistryFailures ==
    {Exception("ClientConnectorError", [text |-> "registry unreachable"]),
     Exception("ContentTypeError", [text |-> "registry body is not JSON"])}

ErrorCodes ==
    {<<"error", "api", "link", "invalid">>,
     <<"error", "api", "link", "missing">>,
     <<"error", "api", "content", "video", "unavailable">>,
     <<"error", "api", "invalid_body">>,
     <<"error", "api", "auth", "key", "missing">>,
     <<"error", "api", "auth", "key", "not_found">>,
     <<"error", "api", "auth", "key", "invalid">>,
     <<"error", "api", "youtube", "login">>,
     <<"error", "api", "fetch", "failed">>,
     <<"error", "api", "rate_exceeded">>,
     <<"error", "unknown">>}

ErrorResponse(code) == [status |-> "error", error |-> [code |-> code]]

TunnelResponses ==
    {[status |-> "tunnel", url |-> "https://tunnel/1", filename |-> "clip.mp4"],
     [status |-> "redirect", url |-> "https://cdn/2", filename |-> "song.mp3"]}

PickerResponse == [status |-> "picker", picker |-> "items"]

Responses ==
    TunnelResponses \cup {PickerResponse} \cup {ErrorResponse(c) : c \in ErrorCodes}

RECURSIVE SeqsOver(_, _)
\* the sequences over S of length at most n
SeqsOver(S, n) ==
    IF n = 0 THEN {<<>>}
    ELSE LET shorter == SeqsOver(S, n - 1)
         IN  shorter \cup
             {Append(s, e) : s \in {x \in shorter : Len(x) = n - 1},
                             e \in S} 

DistinctApis(s) == \A i, j \in 1..Len(s) : i # j => s[i].api # s[j].api

\* what the registry can return: up to MaxReg entries, no address listed twice
RegistryLists(pool) == {s \in SeqsOver(pool, MaxReg) : DistinctApis(s)}

\* registry entries of the session: every host with two scores, one of them
\* also in a version the filter rejects
SessionPool ==
    {RegistryEntry("dwnld.nichind.dev", 10, 1, 7, sc) : sc \in {1, 2}}
    \cup {RegistryEntry("b.example", major, 1, 0, 2) : major \in {9, 10}}
    \cup {RegistryEntry("c.example", 11, 1, 0, 1)}

\* what the instances answer in the session: a tunnel, a terminal error and a
\* retryable error
SessionResponses ==
    {[status |-> "tunnel", url |-> "https://tunnel/1", filename |-> "clip.mp4"],
     ErrorResponse(<<"error", "api", "link", "invalid">>),
     ErrorResponse(<<"error", "api", "fetch", "failed">>)}

SessionLists == RegistryLists(SessionPool)

SessionArgs ==
    {[NoArgs EXCEPT !.url = <<"h", "t", "'", "p">>, !.quality = "4k"]}

SessionCtorArgs ==
    {<<>>, <<"b.example">>, <<"https://", "b.example", "/">>, <<"fetch">>}

\* the resolver's inputs: every source URL over UrlChars up to MaxUrlLen, every
\* kind of quality argument, and the optional arguments given or not
UrlChars == {"h", "'", "\"", "\\"}

QualityArgs ==
    CanonicalQualities \cup DOMAIN QualityAliases \cup {"None", "4K", "best"}

ArgumentArgs ==
    {[NoArgs EXCEPT !.url = u, !.quality = "1080"] : u \in SeqsOver(UrlChars, MaxUrlLen)}
    \cup {[NoArgs EXCEPT !.url = <<"h", "'">>, !.quality = q] : q \in QualityArgs}
    \cup {[NoArgs EXCEPT !.url = <<"h">>, !.quality = "max", !.filename_style = "nerdy",
                         !.audio_format = "mp3", !.youtube_video_codec = "vp9"]}

ArgumentCtorArgs == {<<>>, <<"fetch">>}

ArgumentResponses ==
    TunnelResponses \cup {ErrorResponse(<<"error", "api", "youtube", "login">>)}

\* a small registry: two good instances
SmallPool ==
    {RegistryEntry("dwnld.nichind.dev", 10, 1, 0, 2),
     RegistryEntry("b.example", 10, 1, 0, 1)}

SmallLists == RegistryLists(SmallPool)

\* the error dispatch's inputs: one call argument, every kind of response
ErrorArgs == {[NoArgs EXCEPT !.url = <<"h", "'">>, !.quality = "720p"]}

ErrorCtorArgs == {<<>>, <<"fetch">>, <<"https://", "b.example", "/">>}

\* the selector's inputs: every host listed with a version, a trust, a number
\* of services down and a score on either side of the filter's thresholds
SelectorPool ==
    {RegistryEntry(h, major, trust, down, score) :
        h \in Hosts, major \in {9, 10}, trust \in {0, 1}, down \in {7, 8},
        score \in {1, 2}}

SelectorLists == RegistryLists(SelectorPool)

SelectorArgs == {[NoArgs EXCEPT !.url = <<"h">>, !.quality = "1080"]}

SelectorCtorArgs == {<<"fetch">>}

SelectorResponses ==
    {[status |-> "tunnel", url |-> "https://tunnel/1", filename |-> "clip.mp4"],
     ErrorResponse(<<"error", "api", "link", "invalid">>)}

\* the instance strings a client can be configured with: none, sentinels in
\* several spellings, with a scheme, with whitespace around, and real URLs
ConfigCtorArgs ==
    {<<>>, <<"fetch">>, <<"FETCH">>, <<"Get">>, <<"F">>, <<"https://", "fetch">>,
     <<"http://", "get">>, <<"fetch", " ">>, <<" ", "fetch">>, <<"b.example">>,
     <<"https://", "b.example", "/">>, <<"http://", "c.example">>}

\* two concurrent resolutions: auto-selection or the default instance, one
\* call argument, a success and a retryable error
ConcurrentCtorArgs == {<<>>, <<"fetch">>}

ConcurrentArgs == {[NoArgs EXCEPT !.url = <<"h">>, !.quality = "1080"]}

ConcurrentResponses ==
    {[status |-> "tunnel", url |-> "https://tunnel/1", filename |-> "clip.mp4"],
     ErrorResponse(<<"error", "api", "fetch", "failed">>)}

\* downloads: what playlist.video_urls can yield, the chunks of a stream, the
\* folders and file names a caller can give
ItemUrls == {<<"v1">>, <<"v2">>, <<"v3">>}

DistinctItems(s) == \A i, j \in 1..Len(s) : i # j => s[i] # s[j]

PlaylistItems == {s \in SeqsOver(ItemUrls, MaxItems) : DistinctItems(s)}

Chunks == {"c1", "c2"}

FolderArgs == {None, <<"/", "out">>, <<"/", "out", "/">>, <<"out">>}

\* single downloads: the file name and the folder given or not
DownloadArgs ==
    {[url |-> <<"h">>, quality |-> "None", filename |-> fn, path_folder |-> pf,
      playlist |-> FALSE] :
        fn \in {None, <<"a.mp4">>}, pf \in {None, <<"/", "out">>}}

\* playlist downloads: asked for by the flag, or by the list parameter of the URL
PlaylistArgs ==
    {[url |-> u, quality |-> "None", filename |-> None, path_folder |-> pf,
      playlist |-> pl] :
        u \in {<<"h">>, <<"h", "?list=">>}, pf \in {None, <<"/", "out">>},
        pl \in BOOLEAN} \ DownloadArgs

DownloadGetArgs == {[NoArgs EXCEPT !.url = <<"h">>, !.quality = "1080"]}

DownloadCtorArgs == {<<>>, <<"fetch">>}

PlaylistResponses ==
    {[status |-> "tunnel", url |-> "https://tunnel/1", filename |-> "clip.mp4"],
     ErrorResponse(<<"error", "api", "link", "invalid">>),
     ErrorResponse(<<"error", "api", "fetch", "failed">>)}

DownloadResponses ==
    {[status |-> "tunnel", url |-> "https://tunnel/1", filename |-> "clip.mp4"],
     ErrorResponse(<<"error", "api", "link", "invalid">>)}

\* ------------------------------------------------------------ actions
\* self.headers after a step that left the task in f: entering get_instance
\* has written the selector's User-Agent into the shared dict
HeadersAfter(f) ==
    IF f.pc = "registry"
    THEN [headers EXCEPT !["User-Agent"] = SelectorUserAgent]
    ELSE headers

\* the step of get() that left the task in task'[t] has made the download()
\* awaiting it, if there is one, go on to its next await
ResumeDownload(t) ==
    LET c == AfterGet(Conf(dl[t], task'[t], disk))
    IN  dl' = [dl EXCEPT ![t] = c.d] /\ disk' = c.disk

\* the state a step of download() leaves
Apply(t, c) ==
    /\ task' = [task EXCEPT ![t] = c.f]
    /\ dl' = [dl EXCEPT ![t] = c.d]
    /\ disk' = c.disk
    /\ headers' = HeadersAfter(c.f)

Init(ctorArgs) ==
    /\ \E arg \in ctorArgs :
          /\ api_instance = ConstructInstance(arg)
          /\ headers = ConstructHeaders(arg, "")
    /\ skipped_instances = <<>>
    /\ task = [t \in Tasks |-> IdleTask]
    /\ calls = 0
    /\ erred = {}
    /\ dl = [t \in Tasks |-> IdleDownload]
    /\ disk = EmptyDisk

\* get(url, quality, ...) is called, as one of at most limit calls of the
\* session: runs up to its first await
Call(t, argSet, limit) ==
    /\ task[t].pc = "idle"
    /\ dl[t].pc = "idle"
    /\ calls < limit
    /\ \E a \in argSet :
          task' = [task EXCEPT ![t] =
                      Enter(NewCall(a, api_instance, skipped_instances),
                            api_instance)]
    /\ calls' = calls + 1
    /\ headers' = HeadersAfter(task'[t])
    /\ UNCHANGED <<api_instance, skipped_instances, erred, dl, disk>>

\* the registry GET returns: filter, then the loop up to the first probe
RegistryResponse(t, lists) ==
    /\ task[t].pc = "registry"
    /\ \/ \E exc \in RegistryFailures :
             task' = [task EXCEPT ![t] =
                         Raise([task[t] EXCEPT !.gi = "failed"], exc, api_instance,
                               InTry(task[t]))]
       \/ \E instances \in lists :
             task' = [task EXCEPT ![t] =
                         LoopHead([task[t] EXCEPT !.instances = instances],
                                  GoodInstances(instances), api_instance)]
    /\ ResumeDownload(t)
    /\ UNCHANGED <<api_instance, skipped_instances, headers, calls, erred>>

\* the probe GET of good_instances[0] returns or fails
ProbeResponse(t) ==
    /\ task[t].pc = "probe"
    /\ \E answered \in BOOLEAN :
          LET url == CanonicalUrl(HostOf(ProbeAddress(Head(task[t].good_instances))))
              f == [task[t] EXCEPT !.probes =
                       Append(@, [instance |-> Head(task[t].good_instances),
                                  answered |-> answered,
                                  skipped |-> answered
                                              /\ IsSkipped(url, skipped_instances)])]
              g == [f EXCEPT !.gi = "committed"]
          IN  IF answered /\ ~IsSkipped(url, skipped_instances)
              THEN /\ api_instance' =
                          Committed(url, ProbeAddress(Head(f.good_instances)))
                   /\ task' = [task EXCEPT ![t] =
                                  IF f.site = "first" THEN Submit(g, api_instance')
                                  ELSE Enter(g, api_instance')]
              ELSE /\ api_instance' = api_instance
                   /\ task' = [task EXCEPT ![t] = Discard(f, api_instance)]
    /\ headers' = HeadersAfter(task'[t])
    /\ ResumeDownload(t)
    /\ UNCHANGED <<skipped_instances, calls, erred>>

\* the extraction POST returns or fails
PostResponse(t, responses) ==
    /\ task[t].pc = "post"
    /\ LET f == task[t]
           host == HostOf(f.target)
       IN  \/ /\ task' = [task EXCEPT ![t] =
                            Raise(f, Exception("ClientConnectorError",
                                               [text |-> "connection failed"]),
                                  api_instance, TRUE)]
              /\ UNCHANGED <<skipped_instances, erred>>
           \/ /\ host # "none"
              /\ \E json \in responses :
                    LET g == [f EXCEPT !.resp = json]
                        d == ErrorDispatch(f.args.url, json)
                    IN  IF "error" \notin DOMAIN json
                        THEN /\ task' = [task EXCEPT ![t] = Success(g, json)]
                             /\ UNCHANGED <<skipped_instances, erred>>
                        ELSE IF d.type = "Retry"
                        THEN /\ skipped_instances' =
                                    Append(skipped_instances,
                                           SkippedOnRetry(f, api_instance))
                             /\ erred' = erred \cup {host}
                             /\ task' = [task EXCEPT ![t] =
                                            AwaitRegistry([g EXCEPT !.retries = @ + 1],
                                                          "retry")]
                        ELSE /\ task' = [task EXCEPT ![t] =
                                            Raise(g, d, api_instance, TRUE)]
                             /\ UNCHANGED <<skipped_instances, erred>>
    /\ headers' = HeadersAfter(task'[t])
    /\ ResumeDownload(t)
    /\ UNCHANGED <<api_instance, calls>>

\* download(a.url, a.quality, a.filename, a.path_folder, playlist=a.playlist)
\* is called, as one of at most limit calls of the session: runs up to its
\* first await, or returns at once for an empty playlist
Download(t, argSet, itemSets, limit) ==
    /\ task[t].pc = "idle"
    /\ dl[t].pc = "idle"
    /\ calls < limit
    /\ \E a \in argSet, items \in itemSets :
          Apply(t, EnterDownload(Conf([dl[t] EXCEPT !.owner = NoFile, !.given = None],
                                      task[t], disk),
                                 a, NoFile, items, api_instance, skipped_instances))
    /\ calls' = calls + 1
    /\ UNCHANGED <<api_instance, skipped_instances, erred>>

\* file.download(path_folder) is called on the File the last get() returned:
\* self.cobalt.download(self.url, self.filename, path_folder, file=self), whose
\* positional parameters are url, quality, filename
FileDownload(t, folders, itemSets, limit) ==
    /\ task[t].pc = "idle"
    /\ dl[t].pc = "idle"
    /\ task[t].outcome.type = "File"
    /\ calls < limit
    /\ \E path_folder \in folders, items \in itemSets :
          LET file == task[t].result
              a == [url |-> file.url, quality |-> file.filename,
                    filename |-> path_folder, path_folder |-> None,
                    playlist |-> FALSE]
          IN  Apply(t, EnterDownload(Conf([dl[t] EXCEPT !.owner = file,
                                                       !.given = path_folder],
                                          task[t], disk),
                                     a, file, items, api_instance, skipped_instances))
    /\ calls' = calls + 1
    /\ UNCHANGED <<api_instance, skipped_instances, erred>>

\* the tunnel answers the GET or a read of its stream: the connection fails,
\* a chunk arrives, or the stream has ended
StreamResponse(t, chunks) ==
    /\ dl[t].pc = "stream"
    /\ LET c == Conf(dl[t], task[t], disk)
       IN  \/ /\ dl[t].received = <<>>
              /\ Apply(t, RaiseDownload(c, Exception("ClientConnectorError",
                                                     [text |-> "tunnel unreachable"])))
           \/ \E chunk \in chunks :
                 /\ Len(dl[t].received) < MaxChunks
                 /\ Apply(t, WriteChunk(c, chunk))
           \/ Apply(t, EndOfStream(c, api_instance, skipped_instances))
    /\ UNCHANGED <<api_instance, skipped_instances, calls, erred>>

\* a KeyboardInterrupt is raised in the coroutine while it is streaming: at
\* a read of the stream, a write or a print of the loop
KeyboardInterrupt(t) ==
    /\ dl[t].pc = "stream"
    /\ Apply(t, Interrupted(Conf([dl[t] EXCEPT !.interrupts = @ + 1], task[t], disk),
                            api_instance, skipped_instances))
    /\ UNCHANGED <<api_instance, skipped_instances, calls, erred>>

\* ------------------------------------------------------------ specifications
\* One client, its get() calls made one after the other.
SessionInit == Init(SessionCtorArgs)

SessionNext ==
    \/ Call("A", SessionArgs, MaxCalls)
    \/ RegistryResponse("A", SessionLists)
    \/ ProbeResponse("A")
    \/ PostResponse("A", SessionResponses)

Spec == SessionInit /\ [][SessionNext]_vars

\* One resolution on every kind of argument, with a small registry.
ArgumentInit == Init(ArgumentCtorArgs)

ArgumentNext ==
    \/ Call("A", ArgumentArgs, 1)
    \/ RegistryResponse("A", SmallLists)
    \/ ProbeResponse("A")
    \/ PostResponse("A", ArgumentResponses)

ArgumentSpec == ArgumentInit /\ [][ArgumentNext]_vars

\* The resolver on every kind of response, with a small registry.
ErrorInit == Init(ErrorCtorArgs)

ErrorNext ==
    \/ Call("A", ErrorArgs, MaxCalls)
    \/ RegistryResponse("A", SmallLists)
    \/ ProbeResponse("A")
    \/ PostResponse("A", Responses)

ErrorSpec == ErrorInit /\ [][ErrorNext]_vars

\* One resolution that starts with the selector, on every kind of registry entry.
SelectorInit == Init(SelectorCtorArgs)

SelectorNext ==
    \/ Call("A", SelectorArgs, 1)
    \/ RegistryResponse("A", SelectorLists)
    \/ ProbeResponse("A")
    \/ PostResponse("A", SelectorResponses)

SelectorSpec == SelectorInit /\ [][SelectorNext]_vars

\* A client configured with every kind of instance string, its get() calls
\* made one after the other.
ConfigInit == Init(ConfigCtorArgs)

ConfigNext ==
    \/ Call("A", SessionArgs, MaxCalls)
    \/ RegistryResponse("A", SmallLists)
    \/ ProbeResponse("A")
    \/ PostResponse("A", SessionResponses)

ConfigSpec == ConfigInit /\ [][ConfigNext]_vars

\* One client: get(), download() and File.download() called one after the
\* other, single downloads and playlists.
DownloadInit == Init(DownloadCtorArgs)

DownloadNext ==
    \/ Call("A", DownloadGetArgs, 2)
    \/ Download("A", DownloadArgs, {<<>>}, 2)
    \/ FileDownload("A", FolderArgs, {<<>>}, 2)
    \/ RegistryResponse("A", SmallLists)
    \/ ProbeResponse("A")
    \/ PostResponse("A", DownloadResponses)
    \/ StreamResponse("A", Chunks)
    \/ KeyboardInterrupt("A")

DownloadSpec == DownloadInit /\ [][DownloadNext]_vars

\* One playlist download on a client, every item resolved and streamed.
PlaylistNext ==
    \/ Download("A", PlaylistArgs, PlaylistItems, 1)
    \/ RegistryResponse("A", SmallLists)
    \/ ProbeResponse("A")
    \/ PostResponse("A", PlaylistResponses)
    \/ StreamResponse("A", {"c1"})
    \/ KeyboardInterrupt("A")

PlaylistSpec == DownloadInit /\ [][PlaylistNext]_vars

\* Two coroutines run get() on one client; the event loop switches between
\* them at the awaits of the registry GET, the probe GETs and the POST.
ConcurrentInit == Init(ConcurrentCtorArgs)

ConcurrentNext ==
    \E t \in Tasks :
        \/ Call(t, ConcurrentArgs, 2)
        \/ RegistryResponse(t, SmallLists)
        \/ ProbeResponse(t)
        \/ PostResponse(t, ConcurrentResponses)

ConcurrentSpec == ConcurrentInit /\ [][ConcurrentNext]_vars

\* ------------------------------------------------------------ properties
\* the canonical URL the candidate under probe reports
ProbedUrl(f) == CanonicalUrl(HostOf(ProbeAddress(Head(f.good_instances))))

\* the filtered candidates of the registry list a task fetched last
Candidates(f) == Range(GoodInstances(f.instances))

RetryableCode(code) ==
    /\ Len(code) >= 3
    /\ \/ code[3] \in {"youtube", "fetch"}
       \/ code[3] = "auth" /\ code[Len(code)] \in {"missing", "not_found"}

\* C1: get_instance never commits a candidate whose probe-reported canonical
\* URL is in skipped_instances when it is probed: such a candidate is popped
\* (the task stays in the probe loop or leaves get() with the exhaustion
\* error) and the active instance keeps its value, whatever its score.
C1_NeverCommitsSkipped ==
    [][\A t \in Tasks :
          (task[t].pc = "probe" /\ ProbedUrl(task[t]) \in Range(skipped_instances))
          => /\ task'[t].pc \in {"probe", "idle"}
             /\ task'[t].gi # "committed"
             /\ api_instance' = api_instance]_vars

\* C1 witness: after a retry the selector has committed an instance although a
\* candidate of the same list with a strictly higher score is in the skip list.
C1_Witness ==
    \E t \in Tasks :
        /\ task[t].pc = "post"
        /\ task[t].gi = "committed"
        /\ task[t].retries >= 1
        /\ \E e \in Candidates(task[t]) :
              /\ e.score > Head(task[t].good_instances).score
              /\ CanonicalUrl(HostOf(ProbeAddress(e))) \in Range(skipped_instances)

\* C2: no extraction POST is submitted to an instance that has answered an
\* extraction request of this client with a retryable error before.
C2_ErredInstanceNeverPostedAgain ==
    \A t \in Tasks :
        task[t].pc = "post" => HostOf(task[t].target) \notin erred

HasError(json) == "error" \in DOMAIN json

CompleteSuccess(json) ==
    ~HasError(json) /\ {"status", "url", "filename"} \subseteq DOMAIN json

\* C3: after a retryable error code get() has appended the active instance
\* to skipped_instances and entered get_instance; every resubmission goes to
\* another instance than the POST before it; and a success response to a
\* resubmission makes get() return the File of that response.
C3_RetryOnAnotherInstance ==
    \A t \in Tasks :
        LET f == task[t]
        IN  /\ (f.pc = "registry" /\ f.site = "retry")
               => /\ HasError(f.resp) /\ RetryableCode(f.resp.error.code)
                  /\ skipped_instances # <<>>
                  /\ skipped_instances[Len(skipped_instances)] = api_instance
            /\ \A i \in 2..Len(f.posts) :
                  HostOf(f.posts[i].target) # HostOf(f.posts[i - 1].target)
            /\ (f.pc = "idle" /\ f.retries >= 1 /\ CompleteSuccess(f.resp))
               => /\ f.outcome.type = "File"
                  /\ f.result.tunnel = f.resp["url"]

\* the exception the claims name for an error code, "none" for the others
TerminalClass(code) ==
    IF Len(code) < 3 THEN "none"
    ELSE CASE code[3] = "link" -> "LinkError"
           [] code[3] = "content" -> "ContentError"
           [] code[3] = "invalid_body" -> "InvalidBody"
           [] code[3] = "auth" /\ code[Len(code)] \notin {"missing", "not_found"} ->
                "AuthError"
           [] OTHER -> "none"

\* the first response of the call has arrived and carries a terminal error code
FirstResponseTerminal(f) ==
    /\ f.pc # "post"
    /\ Len(f.posts) = 1
    /\ HasError(f.resp)
    /\ TerminalClass(f.resp.error.code) # "none"

\* C4 as stated: a terminal error code in the first response raises the
\* matching exception with the raw code, after one POST, the selector not
\* invoked at all during the call, skipped_instances and the active instance
\* as they were before the call.
C4_Original ==
    \A t \in Tasks :
        LET f == task[t]
        IN  FirstResponseTerminal(f)
            => /\ f.pc = "idle"
               /\ f.outcome.type = TerminalClass(f.resp.error.code)
               /\ f.outcome.msg.code = f.resp.error.code
               /\ f.retries = 0
               /\ f.selections = 0
               /\ skipped_instances = f.before.skipped_instances
               /\ api_instance = f.before.api_instance

\* C4: a terminal error code in the first response raises the matching
\* exception with the raw code, after one POST and without retry: the
\* selector is not invoked after the POST (it has run once, before the POST,
\* exactly when the call found no usable active instance), skipped_instances
\* is as before the call and the active instance is the one the POST went to.
C4_TerminalErrorRaises ==
    \A t \in Tasks :
        LET f == task[t]
        IN  FirstResponseTerminal(f)
            => /\ f.pc = "idle"
               /\ f.outcome.type = TerminalClass(f.resp.error.code)
               /\ f.outcome.msg.code = f.resp.error.code
               /\ f.retries = 0
               /\ f.selections = (IF NeedsInstance(f.before.api_instance) THEN 1 ELSE 0)
               /\ skipped_instances = f.before.skipped_instances
               /\ api_instance = f.posts[1].target
               /\ (f.selections = 0 => api_instance = f.before.api_instance)

\* C4 witness: an AuthError raised for a terminal auth code by a call that
\* started with a skip list that was not empty.
C4_Witness ==
    \E t \in Tasks :
        /\ FirstResponseTerminal(task[t])
        /\ task[t].outcome.type = "AuthError"
        /\ task[t].before.skipped_instances # <<>>

Unclassified(code) ==
    \/ Len(code) < 3
    \/ code[3] \notin {"link", "content", "invalid_body", "auth", "youtube", "fetch"}

\* C5: an error response whose code is in none of the six classes, whatever
\* its number of segments, makes get() raise UnrecognizedError with the raw
\* code and the error object, without retry and without a change of
\* skipped_instances or of the active instance.
C5_UnclassifiedRaisesUnrecognized ==
    \A t \in Tasks :
        LET f == task[t]
        IN  (f.pc # "post" /\ HasError(f.resp) /\ Unclassified(f.resp.error.code))
            => /\ f.pc = "idle"
               /\ f.outcome.type = "UnrecognizedError"
               /\ f.outcome.msg.code = f.resp.error.code
               /\ f.outcome.msg.error = f.resp.error
               /\ Len(skipped_instances) = Len(f.before.skipped_instances) + f.retries
               /\ api_instance = f.target

\* C6: when get_instance has run out of candidates (all discarded, or none
\* passed the filter), get() ends with NoAvailableInstance.
C6_ExhaustionRaisesNoAvailableInstance ==
    \A t \in Tasks :
        task[t].gi = "exhausted"
        => /\ task[t].pc = "idle"
           /\ task[t].outcome.type = "NoAvailableInstance"

\* How far a running call is from its end: the resubmissions it has left,
\* then its position in the cycle POST, registry, probes.
Remaining(f) ==
    (Cardinality(Hosts) + 1 - Len(f.posts)) * (Cardinality(Hosts) + 3)
    + (CASE f.pc = "post" -> Cardinality(Hosts) + 2
         [] f.pc = "registry" -> Cardinality(Hosts) + 1
         [] f.pc = "probe" -> Len(f.good_instances)
         [] OTHER -> 0)

\* C7: every get() call terminates when its network calls return, and it
\* makes at most one resubmission per instance: a call never makes more
\* POSTs than there are instances plus one, a running call always has a
\* response to wait for, and every step of a running call ends it or brings
\* it closer to its end (Remaining decreases and is never negative).
C7_GetTerminates ==
    /\ [](\A t \in Tasks :
             /\ Len(task[t].posts) <= Cardinality(Hosts) + 1
             /\ Remaining(task[t]) >= 0
             /\ task[t].pc # "idle" => ENABLED SessionNext)
    /\ [][\A t \in Tasks :
             (task[t].pc # "idle" /\ task'[t] # task[t])
             => Remaining(task'[t]) < Remaining(task[t])]_vars

\* C7 witness: a call in which every instance answered with a retryable error
\* has ended, after one resubmission per instance.
C7_Witness ==
    \E t \in Tasks :
        /\ task[t].pc = "idle"
        /\ task[t].gi = "exhausted"
        /\ Len(task[t].posts) = Cardinality(Hosts) + 1
        /\ erred = Hosts

\* what the filter is to keep
Wanted(e) ==
    /\ e.version[1] >= 10
    /\ e.trust = 1
    /\ Cardinality({s \in DOMAIN e.services : e.services[s] = FALSE}) <= 7

\* C8: the candidates of get_instance (those still listed and those popped)
\* are exactly the registry entries with major >= 10, trust 1 and at most 7
\* services down; the entry under probe and the entry committed are among them.
C8_FilterExact ==
    \A t \in Tasks :
        LET f == task[t]
        IN  /\ f.gi \in {"probing", "committed", "exhausted"}
               => Range(f.good_instances) \cup Range(f.discarded)
                      = {e \in Range(f.instances) : Wanted(e)}
            /\ f.pc = "probe" => Wanted(Head(f.good_instances))
            /\ f.gi = "committed"
               => /\ Wanted(Head(f.good_instances))
                  /\ f.posts[Len(f.posts)].target
                         = CanonicalUrl(Head(f.good_instances).api)

\* C8 witness: an instance with exactly 7 services down has been committed
\* while the registry listed, with a higher score, an entry the filter rejects.
C8_Witness ==
    \E t \in Tasks :
        LET f == task[t]
        IN  /\ f.gi = "committed"
            /\ Head(f.good_instances).services = ServicesDown(7)
            /\ \E e \in Range(f.instances) :
                  ~Wanted(e) /\ e.score > Head(f.good_instances).score

AliasPairs ==
    {<<"8k", "3840">>, <<"4k", "2160">>, <<"2k", "1440">>, <<"1080p", "1080">>,
     <<"720p", "720">>, <<"480p", "480">>, <<"360p", "360">>, <<"240p", "240">>,
     <<"144p", "144">>}

\* C9: the videoQuality of every submitted body is a canonical token: the
\* argument itself when it is canonical, the alias's target when it is an
\* alias, "1080" otherwise; and no call ends before its first POST unless the
\* selector was entered.
C9_QualityNormalized ==
    \A t \in Tasks :
        LET f == task[t]
            q == f.args.quality
        IN  /\ \A i \in 1..Len(f.posts) :
                  LET v == f.posts[i].body.videoQuality
                  IN  /\ v \in {"max", "3840", "2160", "1440", "1080", "720", "480",
                                "360", "240", "144"}
                      /\ q \in CanonicalQualities => v = q
                      /\ \A pair \in AliasPairs : q = pair[1] => v = pair[2]
                      /\ (q \notin CanonicalQualities /\ \A pair \in AliasPairs : q # pair[1])
                         => v = "1080"
            /\ (f.pc = "idle" /\ f.outcome.type # "none" /\ f.posts = <<>>)
               => f.selections > 0

\* C9 witness: the alias 4k was submitted as 2160 on a resubmission, and so
\* was an unrecognized value as 1080.
C9_Witness ==
    \E t \in Tasks :
        /\ task[t].args.quality \in {"4k", "best"}
        /\ task[t].retries >= 1
        /\ task[t].pc = "post"
        /\ task[t].body.videoQuality \in {"2160", "1080"}

QuoteChars == {"'", "\"", "\\"}

\* C10: the url of the returned File equals the url of every body submitted
\* in the call, neither contains a quote or a backslash, and the File's
\* status, tunnel and filename are the response's status, url and filename.
C10_SanitizedUrlRoundTrip ==
    \A t \in Tasks :
        LET f == task[t]
        IN  /\ \A i \in 1..Len(f.posts) :
                  Range(f.posts[i].body.url) \cap QuoteChars = {}
            /\ f.outcome.type = "File"
               => /\ \A i \in 1..Len(f.posts) : f.result.url = f.posts[i].body.url
                  /\ Range(f.result.url) \cap QuoteChars = {}
                  /\ f.result.status = f.resp["status"]
                  /\ f.result.tunnel = f.resp["url"]
                  /\ f.result.filename = f.resp["filename"]

\* C10 witness: a File returned after a retry for a source URL that contained
\* a backslash.
C10_Witness ==
    \E t \in Tasks :
        /\ task[t].outcome.type = "File"
        /\ task[t].retries >= 1
        /\ "\\" \in Range(task[t].args.url)
        /\ "h" \in Range(task[t].result.url)

\* C11: when the extraction POST fails with a connection error, get() ends in
\* that step with BadInstance naming the active instance: the selector is not
\* entered, nothing is resubmitted, and skipped_instances and the active
\* instance are left as they were.
C11_PostFailureRaisesBadInstance ==
    [][\A t \in Tasks :
          (/\ task[t].pc = "post"
           /\ task'[t].raised.exc.type = "ClientConnectorError"
           /\ task'[t].raised.at = "post")
          => /\ task'[t].pc = "idle"
             /\ task'[t].outcome.type = "BadInstance"
             /\ task'[t].outcome.msg.instance = task[t].target
             /\ task'[t].selections = task[t].selections
             /\ task'[t].gi = task[t].gi
             /\ task'[t].posts = task[t].posts
             /\ skipped_instances' = skipped_instances
             /\ api_instance' = api_instance
             /\ api_instance = task[t].target]_vars

\* C11 witness: a resubmission after a retry failed with a connection error
\* and the call ended with BadInstance, the skip list holding one entry.
C11_Witness ==
    \E t \in Tasks :
        /\ task[t].pc = "idle"
        /\ task[t].raised.at = "post"
        /\ task[t].raised.exc.type = "ClientConnectorError"
        /\ task[t].outcome.type = "BadInstance"
        /\ Len(task[t].posts) = 2
        /\ Len(skipped_instances) = 1

\* C12: a registry fetch that fails (endpoint unreachable, or a malformed
\* body) ends get() with RegistryUnavailable, before the first submission and
\* in a reselect alike, and the registry is not fetched again in that call.
C12_RegistryFailureRaisesRegistryUnavailable ==
    \A t \in Tasks :
        task[t].gi = "failed"
        => /\ task[t].pc = "idle"
           /\ task[t].outcome.type = "RegistryUnavailable"

\* C13: with two resolutions interleaved on one client, the URL a resolution
\* appends to skipped_instances after a retryable error is the active
\* instance at that moment, whichever resolution committed it, and not
\* necessarily the instance its own request went to; the append is followed
\* by that resolution's reselect.
C13_SkipsTheSharedActiveInstance ==
    [][\A t \in Tasks :
          (task[t].pc = "post" /\ task'[t].retries = task[t].retries + 1)
          => /\ skipped_instances' = Append(skipped_instances, api_instance)
             /\ task'[t].pc = "registry"
             /\ HostOf(task[t].target) \in erred']_vars

\* C13 witness: resolution t got a retryable error from X, its own target,
\* and the entry it appended is Y, committed meanwhile by resolution u, which
\* posted to it; Y never answered with an error and X is in no skip entry.
C13_Witness ==
    \E t, u \in Tasks :
        /\ t # u
        /\ task[t].pc = "registry" /\ task[t].site = "retry"
        /\ Len(skipped_instances) = 1
        /\ skipped_instances[1] # task[t].target
        /\ skipped_instances[1] = task[u].target
        /\ task[u].gi = "committed"
        /\ HostOf(skipped_instances[1]) \notin erred
        /\ HostOf(task[t].target) \in erred
        /\ HostOf(skipped_instances[1]) # HostOf(task[t].target)

\* the requests and streams of a coroutine that are in flight
InFlight(t) ==
    (IF task[t].pc \in {"registry", "probe", "post"} THEN 1 ELSE 0)
    + (IF dl[t].pc = "stream" THEN 1 ELSE 0)

\* C14: a playlist download works through its items one at a time and in the
\* order the playlist yields them: the log of the loop is start, end, start,
\* end, ... with the k-th pair about the k-th item, a resolution or a stream
\* is in flight only between the start of an item and its end, and never
\* more than one of them.
C14_PlaylistSequential ==
    \A t \in Tasks :
        LET d == dl[t]
        IN  d.mode = "playlist"
            => /\ \A i \in 1..Len(d.log) :
                     /\ d.log[i].item = d.items[(i + 1) \div 2]
                     /\ (i % 2 = 1) <=> (d.log[i].event = "start")
                     /\ (d.log[i].event = "raised") => i = Len(d.log)
               /\ Len(d.log) <= 2 * Len(d.items)
               /\ InFlight(t) <= 1
               /\ (InFlight(t) = 1) <=> (Len(d.log) % 2 = 1)
               /\ (InFlight(t) = 1) <=> (d.pc # "idle")
               /\ d.pc = "get" <=> task[t].pc # "idle"
               /\ (d.pc = "idle" /\ d.result.type = "return")
                  => Len(d.log) = 2 * Len(d.items)

\* C14 witness: the second item of a playlist is being streamed after the
\* first has been resolved, streamed and ended.
C14_Witness ==
    \E t \in Tasks :
        /\ dl[t].mode = "playlist"
        /\ dl[t].pc = "stream"
        /\ dl[t].k = 2
        /\ Len(dl[t].log) = 3
        /\ dl[t].log[2].event = "end"
        /\ dl[t].received # <<>>

\* C15: when file.download(path_folder) has returned, the file is on disk at
\* path_folder joined with the File's filename (the Downloads folder when
\* path_folder was omitted), that path is the value returned and the File's
\* path, and downloaded is True.
C15_FileDownloadSavesInFolder ==
    \A t \in Tasks :
        LET d == dl[t]
            folder == IF d.given = None THEN Downloads ELSE d.given
            expected == Join(folder, <<d.owner.filename>>)
        IN  (d.owner # NoFile /\ d.pc = "idle" /\ d.result.type = "return")
            => /\ d.result.value = expected
               /\ IsFile(disk, expected)
               /\ d.owner.downloaded
               /\ d.owner.path = expected

\* the place of a candidate in the registry list a task fetched
RegistryIndex(f, e) == CHOOSE i \in 1..Len(f.instances) : f.instances[i] = e

\* e is ranked before g: higher score, or the same score and listed earlier
RankedBefore(f, e, g) ==
    \/ e.score > g.score
    \/ e.score = g.score /\ RegistryIndex(f, e) < RegistryIndex(f, g)

\* C16: the candidates popped followed by the candidates left are the
\* filtered candidates in descending score order, ties in registry order;
\* the probes made are a prefix of that order, one per candidate; every
\* candidate popped had its own probe fail or report a skipped URL; the
\* candidate committed is the first whose probe answered with a URL that is
\* not skipped, and after it no further candidate is probed.
C16_ProbesInScoreOrder ==
    /\ [](\A t \in Tasks :
             LET f == task[t]
                 order == f.discarded \o f.good_instances
             IN  f.gi \in {"probing", "committed", "exhausted"}
                 => /\ Range(order) = Candidates(f)
                    /\ Len(order) = Cardinality(Candidates(f))
                    /\ \A i, j \in 1..Len(order) :
                          i < j => RankedBefore(f, order[i], order[j])
                    /\ Len(f.probes) <= Len(order)
                    /\ \A i \in 1..Len(f.probes) : f.probes[i].instance = order[i]
                    /\ \A i \in 1..Len(f.discarded) :
                          ~f.probes[i].answered \/ f.probes[i].skipped
                    /\ f.gi = "probing" => Len(f.probes) = Len(f.discarded)
                    /\ f.gi = "exhausted" => Len(f.probes) = Len(order)
                    /\ f.gi = "committed"
                       => /\ Len(f.probes) = Len(f.discarded) + 1
                          /\ f.probes[Len(f.probes)].answered
                          /\ ~f.probes[Len(f.probes)].skipped
                          /\ f.pc # "probe"
                          /\ f.posts[Len(f.posts)].target = ProbedUrl(f))
    /\ [][\A t \in Tasks :
             (task'[t].discarded # task[t].discarded /\ task'[t].discarded # <<>>)
             => /\ task[t].pc = "probe"
                /\ task'[t].discarded
                       = Append(task[t].discarded, Head(task[t].good_instances))
                /\ task'[t].probes[Len(task'[t].probes)].instance
                       = Head(task[t].good_instances)]_vars

\* C16 witness: of two candidates with the same score the one listed first
\* was probed first and popped because its URL is skipped, and the second,
\* probed next, is committed.
C16_Witness ==
    \E t \in Tasks :
        LET f == task[t]
        IN  /\ f.gi = "committed"
            /\ Len(f.discarded) = 1
            /\ f.discarded[1].score = Head(f.good_instances).score
            /\ RegistryIndex(f, f.discarded[1]) < RegistryIndex(f, Head(f.good_instances))
            /\ f.probes[1].skipped

\* the selector ran before the first submission of the call: once more than
\* the reselects of its retries
SelectedFirst(f) == f.selections = f.retries + 1

\* the instance string is a sentinel once its scheme prefix and the
\* whitespace around it are removed and it is lowercased
ClaimedSentinel(inst) ==
    Lower(Strip(Remove(Remove(inst, "https://"), "http://"))) \in Sentinels

\* C17: a get() call starts with the selector exactly when there is no active
\* instance or the configured string is f, fetch or get once scheme prefix
\* and surrounding whitespace are removed and it is lowercased; otherwise its
\* first POST goes to the configured instance; and a call that finds an
\* instance the selector committed does not start with the selector.
C17_SelectorIffSentinel ==
    \A t \in Tasks :
        LET f == task[t]
            configured == f.before.api_instance
        IN  (f.pc # "idle" \/ f.outcome.type # "none")
            => /\ SelectedFirst(f)
                  <=> (configured = <<>> \/ ClaimedSentinel(configured))
               /\ ~SelectedFirst(f)
                  => (f.posts # <<>> /\ f.posts[1].target = configured)
               /\ configured \in {CanonicalUrl(h) : h \in Hosts}
                  => ~SelectedFirst(f)

\* C18: skipped_instances is empty until the first call, and a step either
\* leaves it as it is or appends one entry to it, the latter only in a step
\* in which an extraction POST is answered with a retryable error code.
C18_SkipListGrowsOnRetryableOnly ==
    /\ [](calls = 0 => skipped_instances = <<>>)
    /\ [][\/ skipped_instances' = skipped_instances
          \/ /\ Len(skipped_instances') = Len(skipped_instances) + 1
             /\ SubSeq(skipped_instances', 1, Len(skipped_instances))
                    = skipped_instances
             /\ \E t \in Tasks :
                   /\ task[t].pc = "post"
                   /\ task'[t].posts = task[t].posts
                   /\ HasError(task'[t].resp)
                   /\ RetryableCode(task'[t].resp.error.code)]_vars

\* C18 witness: the skip list holds two entries after a call that was
\* answered with retryable auth and youtube codes and then failed with a
\* terminal error.
C18_Witness ==
    \E t \in Tasks :
        /\ Len(skipped_instances) = 2
        /\ task[t].pc = "idle"
        /\ task[t].outcome.type = "AuthError"
        /\ task[t].retries = 2

\* C19: while get_instance runs, skipped_instances does not change; the step
\* that commits sets the active instance to the canonical URL the probe
\* reported, and the next POST goes there; every other step of get_instance
\* leaves the active instance alone, so that after a registry failure or an
\* exhaustion it is what it was when get_instance was called.
C19_SelectorFrame ==
    /\ [][\A t \in Tasks :
             (task[t].pc \in {"registry", "probe"} /\ task'[t] # task[t])
             => /\ skipped_instances' = skipped_instances
                /\ task'[t].gi = "committed"
                   => /\ task[t].pc = "probe"
                      /\ api_instance' = ProbedUrl(task[t])
                      /\ task'[t].pc = "post"
                      /\ task'[t].target = ProbedUrl(task[t])
                /\ task'[t].gi # "committed"
                   => api_instance' = api_instance]_vars
    /\ [](\A t \in Tasks :
             task[t].gi \in {"failed", "exhausted"}
             => /\ task[t].pc = "idle"
                /\ api_instance = (IF task[t].retries = 0
                                   THEN task[t].before.api_instance
                                   ELSE task[t].target))

\* C19 witness: the selector has committed a canonical URL that differs from
\* the address it probed, in a reselect.
C19_Witness ==
    \E t \in Tasks :
        /\ task[t].gi = "committed"
        /\ task[t].retries >= 1
        /\ api_instance = ProbedUrl(task[t])
        /\ api_instance # ProbeAddress(Head(task[t].good_instances))

\* C20: every resubmission of a call carries the body of its first
\* submission, field by field, although quality normalisation and URL
\* sanitisation are applied again in the recursive call; the URL it is sent
\* to is not the URL of the submission before it.
C20_ResubmitsIdenticalBody ==
    \A t \in Tasks :
        LET f == task[t]
        IN  \A i \in 2..Len(f.posts) :
                /\ f.posts[i].body = f.posts[1].body
                /\ DOMAIN f.posts[i].body = DOMAIN f.posts[1].body
                /\ \A k \in DOMAIN f.posts[1].body :
                      f.posts[i].body[k] = f.posts[1].body[k]
                /\ f.posts[i].target # f.posts[i - 1].target

\* C20 witness: a call given an alias quality, a URL with characters to
\* remove or an audio format has made a resubmission.
C20_Witness ==
    \E t \in Tasks :
        /\ Len(task[t].posts) >= 2
        /\ \/ task[t].args.quality = "8k"
           \/ "\\" \in Range(task[t].args.url)
           \/ task[t].args.audio_format = "mp3"
        /\ task[t].posts[2].body.videoQuality \in CanonicalQualities

\* a single download whose stream has been read to its end
StreamEnded(d) ==
    /\ d.mode = "single"
    /\ d.pc = "idle"
    /\ d.dest # None
    /\ d.result.type # "ClientConnectorError"
    /\ d.interrupts = 0

\* C21: when the stream of a download has ended, whatever the number of
\* chunks it delivered, zero included, download() has returned the folder
\* joined with the file name, and the destination file holds the chunks in
\* the order they arrived.
C21_StreamWrittenAndPathReturned ==
    \A t \in Tasks :
        LET d == dl[t]
        IN  StreamEnded(d)
            => /\ d.result.type = "return"
               /\ d.result.value = Join(d.path_folder, d.filename)
               /\ d.result.value = d.dest
               /\ IsFile(disk, d.dest)
               /\ disk[d.dest].data = d.received

\* C22: a KeyboardInterrupt raised while download() is streaming ends that
\* stream and the download() that was reading it returns None: no exception
\* leaves download() (a playlist goes on with its next item or returns), and
\* skipped_instances and the active instance are as before.
C22_InterruptReturnsNormally ==
    [][\A t \in Tasks :
          dl'[t].interrupts = dl[t].interrupts + 1
          => /\ dl[t].pc = "stream"
             /\ dl'[t].result.type \in {"none", "return"}
             /\ dl'[t].received = dl[t].received \/ dl'[t].k = dl[t].k + 1
             /\ dl[t].mode = "single"
                => /\ dl'[t].pc = "idle"
                   /\ dl'[t].result = Returned(None)
                   /\ disk' = disk
             /\ dl[t].mode = "playlist"
                => /\ dl'[t].k = dl[t].k + 1
                   /\ dl'[t].log[Len(dl[t].log) + 1].event = "end"
                   /\ dl'[t].pc \in {"get", "idle"}
             /\ skipped_instances' = skipped_instances
             /\ api_instance' = api_instance]_vars

\* C22 witness: a download interrupted after its first chunk has returned
\* None; the destination file holds that chunk.
C22_Witness ==
    \E t \in Tasks :
        /\ dl[t].interrupts = 1
        /\ dl[t].mode = "single"
        /\ dl[t].pc = "idle"
        /\ dl[t].result = Returned(None)
        /\ Len(dl[t].received) = 1
        /\ disk[dl[t].dest].data = dl[t].received

\* C23: in a call that runs alone, no two POSTs go to the same URL, and the
\* i-th entry the call has added to skipped_instances is the URL its i-th
\* POST, the one answered with the retryable error, was sent to.
C23_ResubmitsToFreshUrl ==
    \A t \in Tasks :
        LET f == task[t]
            had == Len(f.before.skipped_instances)
        IN  /\ \A i, j \in 1..Len(f.posts) :
                  i < j => f.posts[i].target # f.posts[j].target
            /\ f.pc # "idle"
               => /\ Len(skipped_instances) = had + f.retries
                  /\ \A i \in 1..f.retries :
                        skipped_instances[had + i] = f.posts[i].target
            /\ f.retries <= Len(f.posts)

\* C23 witness: the third POST of a call is in flight; the skip list has
\* gained the URLs of the first two.
C23_Witness ==
    \E t \in Tasks :
        /\ task[t].pc = "post"
        /\ Len(task[t].posts) = 3
        /\ task[t].retries = 2
        /\ skipped_instances[Len(skipped_instances)] = task[t].posts[2].target

\* C24: no step of get() or get_instance() changes self.headers, so the
\* header set stays what the constructor made it, User-Agent included.
C24_HeadersUnchanged == [][headers' = headers]_vars

====
